---- MODULE Spec2Model ----
(***************************************************************************)
(* Model of ic_dependencies.py: class Workspace (init, scan,               *)
(* _update_deps_for, _clone_packages, _build_graph, add_packages,          *)
(* write_cmakelists) together with the parts of the file system and of the *)
(* remote repositories the class reads and writes.                         *)
(*                                                                         *)
(* Python details the model keeps:                                         *)
(*  - a dict iterates in insertion order, so self.packages is a sequence   *)
(*    of records, one per key, in insertion order;                         *)
(*  - a set iterates in an order the program does not control (string      *)
(*    hashing), so every loop over a set picks its order with \E;          *)
(*  - _read_package_deps returns the LIST [] when the declaration file is  *)
(*    absent and a SET otherwise; list has no method discard;              *)
(*  - dict.copy() is shallow: g in _build_graph shares its value objects   *)
(*    with self.packages;                                                  *)
(*  - only RuntimeError is caught around _build_graph; nothing is caught   *)
(*    around Repo.clone_from.                                              *)
(***************************************************************************)
EXTENDS Integers, Sequences, FiniteSets, TLC

\* Package identifiers of the model's universe.
Ids == {"a", "b", "c"}

\* Largest number of identifiers one dependency declaration lists.
MaxDeps == 2
\* Largest number of identifiers one add_packages call requests.
MaxReq == 1
\* Largest number of add_packages calls made on one Workspace.
MaxCalls == 1
\* Largest number of Repo.clone_from calls counted per identifier.
MaxFetches == 2

VARIABLES
    kind,           \* file system: what exists at packages/<id>: "absent", "file" or "dir"
    decl,           \* content of <id>/ic_dependencies.json, in the workspace or in the remote repository
    registry,       \* keys of ic_packages_info.json on disk
    packages,       \* self.packages, in dict insertion order
    package_db,     \* keys of self.package_db
    missing,        \* self._missing
    unknown,        \* self._unknown
    include_order,  \* self._include_order
    circular,       \* self._circular: "None", "True" or "False"
    cmakelists,     \* packages/CMakeLists.txt
    pc,             \* position of the caller: "new", "ready", "loop", "crashed"
    fault,          \* exception that left the Workspace method uncaught, or "none"
    calls,          \* number of add_packages calls started
    requested,      \* identifiers passed to add_packages so far
    tick,           \* parity of the while-loop iterations of the running add_packages
    fetches,        \* number of Repo.clone_from calls issued per identifier
    last_pass       \* what the most recent _build_graph did: its status and its order

vars == <<kind, decl, registry, packages, package_db, missing, unknown,
          include_order, circular, cmakelists, pc, fault, calls, requested, tick,
          fetches, last_pass>>

world == <<kind, decl, registry>>

----------------------------------------------------------------------------
\* Helpers on the dict self.packages (a sequence of [id, list, deps]).

Keys(pk) == {pk[i].id : i \in 1..Len(pk)}

Index(pk, p) == CHOOSE i \in 1..Len(pk) : pk[i].id = p

Value(pk, p) == pk[Index(pk, p)]

\* All identifiers some value of the dict lists.
AllDeps(pk) == UNION {pk[i].deps : i \in 1..Len(pk)}

\* dict[p] = v: a new key is appended, an existing key keeps its place.
SetItem(pk, p, v) ==
    IF p \in Keys(pk)
    THEN [i \in 1..Len(pk) |-> IF pk[i].id = p THEN v ELSE pk[i]]
    ELSE Append(pk, v)

\* del dict[key at position i].
DelAt(pk, i) == [j \in 1..(Len(pk) - 1) |-> IF j < i THEN pk[j] ELSE pk[j + 1]]

\* All orders in which a set can be iterated.
Orders(S) == {s \in [1..Cardinality(S) -> S] : \A i, j \in 1..Cardinality(S) : i # j => s[i] # s[j]}

Range(s) == {s[i] : i \in 1..Len(s)}

----------------------------------------------------------------------------
\* _read_package_deps: [] (a list) when the file is absent, else set(json.load(f)).
\* dc is the content of the declaration files.
_read_package_deps(dc, p) ==
    IF dc[p].present
    THEN [id |-> p, list |-> FALSE, deps |-> dc[p].deps]
    ELSE [id |-> p, list |-> TRUE, deps |-> {}]

\* The first loop of _update_deps_for leaving after its first package.
ReadAll_first(dc, pk, plist) ==
    IF plist = <<>> THEN pk
    ELSE SetItem(pk, Head(plist), _read_package_deps(dc, Head(plist)))

\* First loop of _update_deps_for: self.packages[p] = self._read_package_deps(p).
RECURSIVE ReadAll(_, _, _)
ReadAll(dc, pk, plist) ==
    IF plist = <<>> THEN pk
    ELSE ReadAll(dc, SetItem(pk, Head(plist), _read_package_deps(dc, Head(plist))), Tail(plist))

\* _update_deps_for without line 98: an identifier without a registry entry
\* leaves _missing and is recorded nowhere.
_update_deps_for_unrecorded(dc, pk, plist, miss, unk, db) ==
    LET pk1   == ReadAll(dc, pk, plist)
        miss1 == miss \cup {d \in AllDeps(pk1) : d \notin Keys(pk1)}
        rm    == {m \in miss1 : m \notin db}
    IN [packages |-> pk1, missing |-> miss1 \ rm, unknown |-> unk]

\* _update_deps_for without lines 101-102: an identifier without a registry
\* entry is recorded in _unknown and stays in _missing.
_update_deps_for_kept(dc, pk, plist, miss, unk, db) ==
    LET pk1   == ReadAll(dc, pk, plist)
        miss1 == miss \cup {d \in AllDeps(pk1) : d \notin Keys(pk1)}
        rm    == {m \in miss1 : m \notin db}
    IN [packages |-> pk1, missing |-> miss1, unknown |-> unk \cup rm]

\* _update_deps_for(plist): new packages, missing and unknown.
_update_deps_for(dc, pk, plist, miss, unk, db) ==
    LET pk1   == ReadAll(dc, pk, plist)
        miss1 == miss \cup {d \in AllDeps(pk1) : d \notin Keys(pk1)}
        rm    == {m \in miss1 : m \notin db}
    IN [packages |-> pk1, missing |-> miss1 \ rm, unknown |-> unk \cup rm]

----------------------------------------------------------------------------
\* _build_graph.

\* Position of the first value of g that is a list, 0 when all are sets.
FirstList(g) ==
    IF \E i \in 1..Len(g) : g[i].list
    THEN CHOOSE i \in 1..Len(g) : g[i].list /\ \A j \in 1..(i - 1) : ~g[j].list
    ELSE 0

\* rm(dep): g[package].discard(dep) for every package of g in dict order;
\* the first list value raises AttributeError, the values before it are
\* already changed.
rm(g, dep) ==
    LET k == FirstList(g)
    IN [ok |-> k = 0,
        g  |-> [i \in 1..Len(g) |->
                   IF k = 0 \/ i < k THEN [g[i] EXCEPT !.deps = @ \ {dep}] ELSE g[i]]]

\* Position of the first package of g whose value is empty, 0 when none.
FirstReady(g) ==
    IF \E i \in 1..Len(g) : g[i].deps = {}
    THEN CHOOSE i \in 1..Len(g) : g[i].deps = {} /\ \A j \in 1..(i - 1) : g[j].deps # {}
    ELSE 0

\* The while loop of _build_graph.
RECURSIVE OrderLoop(_, _)
OrderLoop(g, order) ==
    IF g = <<>> THEN [status |-> "ok", order |-> order, g |-> g]
    ELSE LET i == FirstReady(g)
         IN IF i = 0
            THEN [status |-> "RuntimeError", order |-> order, g |-> g]
            ELSE LET p == g[i].id
                     r == rm(DelAt(g, i), p)
                 IN IF r.ok
                    THEN OrderLoop(r.g, Append(order, p))
                    ELSE [status |-> "AttributeError", order |-> Append(order, p), g |-> r.g]

\* _build_graph without lines 131-132: the Unknown identifiers stay in g.
RemoveUnknowns_none(g, unk, u0) == [ok |-> TRUE, g |-> g]

\* The loop "for u in self._unknown: rm(u)"; u0 is the element the set
\* iteration yields first.
RemoveUnknowns(g, unk, u0) ==
    IF unk = {} THEN [ok |-> TRUE, g |-> g]
    ELSE IF FirstList(g) # 0 THEN rm(g, u0)
    ELSE [ok |-> TRUE, g |-> [i \in 1..Len(g) |-> [g[i] EXCEPT !.deps = @ \ unk]]]

\* self.packages after the pass: g shares its values with self.packages, so a
\* package still in g has g's value, and a package deleted from g has the
\* value it had when it was deleted (empty).
Shared(pk, g) ==
    [i \in 1..Len(pk) |->
        IF pk[i].id \in Keys(g) THEN Value(g, pk[i].id) ELSE [pk[i] EXCEPT !.deps = {}]]

_build_graph(pk, unk, u0) ==
    LET r0 == RemoveUnknowns(pk, unk, u0)
    IN IF ~r0.ok
       THEN [status |-> "AttributeError", order |-> <<>>, packages |-> r0.g]
       ELSE LET r == OrderLoop(r0.g, <<>>)
            IN [status |-> r.status, order |-> r.order, packages |-> Shared(r0.g, r.g)]

\* Elements a set iteration can yield first (one dummy for the empty set).
Firsts(S) == IF S = {} THEN {"a"} ELSE S

----------------------------------------------------------------------------
\* Declarations: a file listing at most MaxDeps identifiers, or no file.
Decls == {[present |-> TRUE, deps |-> D] : D \in {X \in SUBSET Ids : Cardinality(X) <= MaxDeps}}
           \cup {[present |-> FALSE, deps |-> {}]}

\* The declaration of <id> can be read only if <id> is a directory or can be
\* cloned; every other identifier gets the one fixed value.
Readable(k, reg, p) == k[p] = "dir" \/ (k[p] = "absent" /\ p \in reg)

\* The program treats identifiers as opaque names, so every workspace is a
\* renaming of one in which the identifiers, in the order of IdSeq, come as
\* directories first, then plain files, then absent ones, and within each
\* group those with a registry entry first, and among these those without
\* a declaration file first, then by the number of declared identifiers.
IdSeq == <<"a", "b", "c">>

Rank(k, reg, dc, p) ==
    (Cardinality(Ids) + 2)
        * (2 * (CASE k[p] = "dir" -> 0 [] k[p] = "file" -> 1 [] OTHER -> 2)
             + (IF p \in reg THEN 0 ELSE 1))
      + (IF dc[p].present THEN 1 + Cardinality(dc[p].deps) ELSE 0)

Init ==
    /\ kind \in [Ids -> {"absent", "file", "dir"}]
    /\ registry \in SUBSET Ids
    /\ decl \in [Ids -> Decls]
    /\ \A p \in Ids : ~Readable(kind, registry, p) => decl[p] = [present |-> TRUE, deps |-> {}]
    /\ \A i, j \in 1..Len(IdSeq) :
          i < j => Rank(kind, registry, decl, IdSeq[i]) <= Rank(kind, registry, decl, IdSeq[j])
    /\ packages = <<>>
    /\ package_db = {}
    /\ missing = {}
    /\ unknown = {}
    /\ include_order = <<>>
    /\ circular = "None"
    /\ cmakelists = [exists |-> FALSE, lines |-> <<>>]
    /\ pc = "new"
    /\ fault = "none"
    /\ calls = 0
    /\ requested = {}
    /\ tick = 0
    /\ fetches = [p \in Ids |-> 0]
    /\ last_pass = [status |-> "none", order |-> <<>>]

----------------------------------------------------------------------------
\* scan() and the ordering pass of init on the declarations dc, the
\* directories dirs (in listdir order) and the registry db.
InitResult(dc, dirs, db, u0) ==
    LET u == _update_deps_for(dc, <<>>, dirs, {}, {}, db)
        r == _build_graph(u.packages, u.unknown, u0)
    IN [missing |-> u.missing, unknown |-> u.unknown, scanned |-> u.packages,
        status |-> r.status, order |-> r.order, packages |-> r.packages]

\* The try/except without line 158: a RuntimeError leaves _circular as it was.
OrderingPass_unset(r) ==
       /\ packages' = r.packages
       /\ last_pass' = [status |-> r.status, order |-> r.order]
       /\ include_order' = (IF r.status = "ok" THEN r.order ELSE include_order)
       /\ circular' = (IF r.status = "ok" THEN "False" ELSE circular)
       /\ pc' = (IF r.status = "AttributeError" THEN "crashed" ELSE "ready")
       /\ fault' = (IF r.status = "AttributeError" THEN "AttributeError" ELSE "none")

\* The try/except around _build_graph in init and add_packages.
OrderingPass(r) ==
       /\ packages' = r.packages
       /\ last_pass' = [status |-> r.status, order |-> r.order]
       /\ IF r.status = "ok"
          THEN include_order' = r.order /\ circular' = "False" /\ pc' = "ready" /\ fault' = "none"
          ELSE IF r.status = "RuntimeError"
          THEN include_order' = include_order /\ circular' = "True" /\ pc' = "ready" /\ fault' = "none"
          ELSE include_order' = include_order /\ circular' = circular
               /\ pc' = "crashed" /\ fault' = "AttributeError"

\* Workspace.init: load the registry, scan() the directories in listdir
\* order, classify, then one ordering pass.
init ==
    /\ pc = "new"
    /\ \E dirs \in Orders({p \in Ids : kind[p] = "dir"}) :
       \E u0 \in Ids :
         LET r == InitResult(decl, dirs, registry, u0)
         IN /\ u0 \in Firsts(r.unknown)
            /\ package_db' = registry
            /\ missing' = r.missing
            /\ unknown' = r.unknown
            /\ OrderingPass(r)
    /\ UNCHANGED <<world, cmakelists, calls, requested, tick, fetches>>

\* add_packages, lines 147-148: seed the to-resolve set with the request.
add_packages(req) ==
    /\ pc = "ready"
    /\ calls < MaxCalls
    /\ missing' = missing \cup req
    /\ pc' = "loop"
    /\ calls' = calls + 1
    /\ requested' = requested \cup req
    /\ tick' = 0
    /\ UNCHANGED <<world, packages, package_db, unknown, include_order, circular,
                   cmakelists, fault, fetches, last_pass>>

\* _clone_packages without the test of line 111: every identifier of the
\* registry is cloned.
ToClone_any == {p \in missing : p \in package_db}

\* Identifiers of the to-resolve set that _clone_packages hands to
\* Repo.clone_from: in the registry, and nothing exists at the destination.
ToClone == {p \in missing : p \in package_db /\ kind[p] = "absent"}

\* Repo.clone_from has been called for every identifier of S.
Fetched(S) ==
    [p \in Ids |-> IF p \in S /\ fetches[p] < MaxFetches THEN fetches[p] + 1 ELSE fetches[p]]

\* One iteration of "while self._missing" in which every clone succeeds:
\* _clone_packages(tmp) discards every identifier of the registry from
\* _missing (cloned or already existing) and leaves the others to
\* _update_deps_for(cloned), which reads the cloned packages in the iteration
\* order of the set cloned.
_clone_packages ==
    /\ pc = "loop"
    /\ missing # {}
    /\ kind' = [p \in Ids |-> IF p \in ToClone THEN "dir" ELSE kind[p]]
    /\ \E cloned \in Orders(ToClone) :
         LET u == _update_deps_for(decl, packages, cloned, missing \ package_db, unknown, package_db)
         IN /\ packages' = u.packages
            /\ missing' = u.missing
            /\ unknown' = u.unknown
    /\ fetches' = Fetched(ToClone)
    /\ tick' = 1 - tick
    /\ UNCHANGED <<decl, registry, package_db, include_order, circular, cmakelists,
                   pc, fault, calls, requested, last_pass>>

\* An iteration in which Repo.clone_from raises for f: the identifiers that
\* list(self._missing) put before f (any subset, done) are already processed,
\* and the exception leaves _clone_packages, add_packages and main.
clone_fails ==
    /\ pc = "loop"
    /\ \E f \in ToClone : \E done \in SUBSET (missing \ {f}) :
         /\ kind' = [p \in Ids |-> IF p \in done \cap ToClone THEN "dir" ELSE kind[p]]
         /\ missing' = missing \ (done \cap package_db)
         /\ fetches' = Fetched((done \cap ToClone) \cup {f})
    /\ pc' = "crashed"
    /\ fault' = "GitCommandError"
    /\ UNCHANGED <<decl, registry, packages, package_db, unknown, include_order,
                   circular, cmakelists, calls, requested, tick, last_pass>>

\* add_packages, lines 153-159: the loop has ended, one ordering pass.
update_deps_graph ==
    /\ pc = "loop"
    /\ missing = {}
    /\ \E u0 \in Firsts(unknown) : OrderingPass(_build_graph(packages, unknown, u0))
    /\ tick' = 0
    /\ UNCHANGED <<world, package_db, missing, unknown, cmakelists, calls, requested,
                   fetches>>

\* write_cmakelists: nothing when _circular is true, else one line per
\* element of _include_order.
write_cmakelists ==
    /\ pc = "ready"
    /\ cmakelists' = IF circular = "True" THEN cmakelists
                     ELSE [exists |-> TRUE, lines |-> include_order]
    /\ UNCHANGED <<world, packages, package_db, missing, unknown, include_order,
                   circular, pc, fault, calls, requested, tick, fetches, last_pass>>

Next ==
    \/ init
    \/ \E req \in {R \in SUBSET Ids : Cardinality(R) <= MaxReq} : add_packages(req)
    \/ _clone_packages
    \/ clone_fails
    \/ update_deps_graph
    \/ write_cmakelists

Spec == Init /\ [][Next]_vars

\* Workspaces of one package directory, a, whose declaration file exists:
\* everything else is absent, or a plain file, until it is cloned, and
\* declares nothing.
OnePackageInit ==
    /\ Init
    /\ kind["a"] = "dir"
    /\ decl["a"].present
    /\ \A p \in Ids \ {"a"} : kind[p] # "dir" /\ decl[p] = [present |-> TRUE, deps |-> {}]

\* A running add_packages keeps executing the iterations of its loop; the
\* caller's next call and a failure of the fetch client are not forced.
FairSpec ==
    /\ OnePackageInit /\ [][Next]_vars
    /\ WF_vars(_clone_packages)

----------------------------------------------------------------------------
\* Vocabulary of the properties.

\* Known: the keys of self.packages.
Known == Keys(packages)

\* The dependency set package p declares on disk (empty when it has no file).
Declared(p) == IF decl[p].present THEN decl[p].deps ELSE {}

\* Every identifier some Known package declares.
DeclaredDeps == UNION {Declared(p) : p \in Known}

Pos(s, p) == CHOOSE i \in 1..Len(s) : s[i] = p

IsPermutation(s, S) == Len(s) = Cardinality(S) /\ Range(s) = S

\* s is a build order of the Known packages for the declarations on disk.
ValidOrder(s) ==
    /\ IsPermutation(s, Known)
    /\ \A p \in Known : \A d \in Declared(p) \cap Known : d # p /\ Pos(s, d) < Pos(s, p)

\* Known packages reachable from the set S in at most n steps over
\* Known-to-Known declared edges.
RECURSIVE ReachWithin(_, _)
ReachWithin(S, n) ==
    IF n = 0 THEN S
    ELSE ReachWithin(S \cup UNION {Declared(p) \cap Known : p \in S}, n - 1)

\* The declarations of the Known packages contain a cycle (a self-edge is one).
HasKnownCycle ==
    \E p \in Known : p \in ReachWithin(Declared(p) \cap Known, Cardinality(Ids))

\* init has run and add_packages has not been called: the caller holds the
\* result of init, or init has left with an exception.
AfterInit == calls = 0 /\ pc \in {"ready", "crashed"}

\* A Workspace method has returned to the caller.
Returned == pc = "ready"

----------------------------------------------------------------------------
\* C1: after init and after every add_packages call, when the outcome is not
\* Cyclic, _include_order is a permutation of the Known packages in which
\* every Known dependency a package declares on disk precedes the package.
C1_BuildOrderValid ==
    (Returned /\ circular # "True") => ValidOrder(include_order)

\* C2: an ordering pass leaves self.packages as it found it: the pass of
\* add_packages does not change it, and after init it holds what scan() read.
C2_PassSideEffectFree ==
    [][/\ (pc = "loop" /\ missing = {}) => packages' = packages
       /\ pc = "new" =>
            \A i \in 1..Len(packages') :
                packages'[i] = _read_package_deps(decl, packages'[i].id)]_vars

\* C3: when the scanned declarations contain no cycle, the pass of init
\* yields Ordered, and the sequence is a valid build order of the Known
\* packages.
C3_InitOrdersAcyclic ==
    (AfterInit /\ ~HasKnownCycle) => (circular = "False" /\ ValidOrder(include_order))

\* C4: whenever init or add_packages returns on Known packages whose
\* declarations contain a cycle, _circular is true, and write_cmakelists then
\* writes nothing.
C4_CycleIsCyclic ==
    [][(pc' = "ready" /\ HasKnownCycle') =>
          (circular' = "True" /\ (pc = "ready" => cmakelists' = cmakelists))]_vars

\* C5: after init and after every add_packages call, Known, Missing and
\* Unknown are pairwise disjoint, Missing holds registry keys only and
\* Unknown holds none.
C5_Partition ==
    Returned =>
        /\ Known \cap missing = {}
        /\ Known \cap unknown = {}
        /\ missing \cap unknown = {}
        /\ missing \subseteq package_db
        /\ unknown \cap package_db = {}

\* C6 as stated: after init and after every add_packages call, the declared
\* dependencies that are not Known are exactly Missing \cup Unknown.
C6_ClassificationExact ==
    Returned => (DeclaredDeps \ Known) = (missing \cup unknown)

\* C6 as amended: after init and after every add_packages call, every
\* declared dependency that is not Known is in Missing \cup Unknown, and
\* every identifier of Missing \cup Unknown is a declared dependency that is
\* not Known or a requested identifier without a registry entry.
C6_ClassificationCovers ==
    Returned =>
        /\ (DeclaredDeps \ Known) \subseteq (missing \cup unknown)
        /\ (missing \cup unknown) \subseteq ((DeclaredDeps \ Known) \cup (requested \ package_db))

\* Witness of C6: add_packages has returned with an Unknown identifier that
\* was requested and that no package declares, next to a declared one that
\* is not Known.
C6_Witness ==
    /\ Returned
    /\ calls > 0
    /\ \E z \in unknown : z \in requested /\ z \notin DeclaredDeps
    /\ \E d \in unknown : d \in DeclaredDeps \ Known

\* C7: a failing fetch does not leave add_packages as an exception.
C7_FetchFailureContained ==
    fault # "GitCommandError"

\* C8: the fetch loop of add_packages ends: every call that has entered the
\* loop reaches an empty to-resolve set, where the final ordering pass runs
\* (unless a fetch fails, which ends the call).
C8_FetchLoopTerminates ==
    (pc = "loop") ~> (pc # "loop" \/ missing = {})

\* Declarations in which every absent file is replaced by a file listing
\* nothing.
AsEmpty(dc) == [p \in Ids |-> [present |-> TRUE, deps |-> dc[p].deps]]

\* C9: init on a workspace with absent declaration files ends without a
\* fault, with the classification and the Ordered/Cyclic outcome it has when
\* those packages declare the empty set.
C9_AbsentDeclAsEmpty ==
    AfterInit =>
        LET dirs == [i \in 1..Len(packages) |-> packages[i].id]
            r == InitResult(AsEmpty(decl), dirs, registry, "a")
        IN /\ fault = "none"
           /\ missing = r.missing
           /\ unknown = r.unknown
           /\ circular = (IF r.status = "ok" THEN "False" ELSE "True")

\* C10: when the scanned Known-to-Known edges are acyclic and every other
\* dependency is Unknown, the pass of init yields Ordered, and the sequence
\* contains every Known package.
C10_UnknownNeverBlocks ==
    (AfterInit /\ ~HasKnownCycle /\ missing = {}) =>
        (circular = "False" /\ Range(include_order) = Known)

----------------------------------------------------------------------------
\* A step that is one whole iteration of the while loop of add_packages.
Iteration == pc = "loop" /\ pc' = "loop"

\* The step in which add_packages returns to its caller.
AddReturns == pc = "loop" /\ pc' = "ready"

C12_Idempotent ==
    [][(/\ pc = "loop" /\ calls = 1 /\ requested = {} /\ missing = {}
        /\ \A p \in Ids : fetches[p] = 0
        /\ circular = "False" /\ ValidOrder(include_order))
       => (/\ pc' = "ready"
           /\ fetches' = fetches
           /\ circular' = "False"
           /\ Keys(packages') = Known
           /\ ValidOrder(include_order'))]_vars

\* C13: write_cmakelists leaves the file alone when the most recent
\* ordering pass ended Cyclic, and otherwise writes the sequence of the most
\* recent pass, one line per element, in its order.
C13_WritesLatestPass ==
    [][(pc = "ready" /\ pc' = "ready") =>
          IF last_pass.status = "RuntimeError"
          THEN cmakelists' = cmakelists
          ELSE cmakelists' = [exists |-> TRUE, lines |-> last_pass.order]]_vars

\* Witness of C13: the file holds the sequence of the pass of add_packages,
\* which contains a package cloned in that call.
C13_Witness ==
    /\ Returned
    /\ calls > 0
    /\ cmakelists.exists
    /\ last_pass.status = "ok"
    /\ cmakelists.lines = last_pass.order
    /\ \E p \in Range(cmakelists.lines) : fetches[p] = 1

\* C14: Repo.clone_from is called for an identifier only while it is in the
\* to-resolve set, has a registry entry and nothing exists at its
\* destination, and at most once; an identifier of the registry whose
\* destination exists is not cloned, and after the iteration it is in the
\* to-resolve set only if the classification found it again as a dependency
\* that is not Known.
C14_FetchOnlyAbsentRegistered ==
    [][\A p \in Ids :
         /\ fetches'[p] # fetches[p] =>
               /\ pc = "loop" /\ p \in missing /\ p \in package_db
               /\ kind[p] = "absent"
               /\ fetches[p] = 0 /\ fetches'[p] = 1
         /\ (Iteration /\ p \in missing /\ p \in package_db /\ kind[p] # "absent") =>
               /\ fetches'[p] = fetches[p]
               /\ kind'[p] = kind[p]
               /\ p \in missing' => p \in AllDeps(packages') \ Keys(packages')]_vars

\* Witness of C14: add_packages has returned after skipping a requested
\* identifier of the registry that existed and cloning another one.
C14_Witness ==
    /\ Returned
    /\ calls > 0
    /\ \E p \in requested \cap package_db : fetches[p] = 0 /\ kind[p] = "dir"
    /\ \E q \in Ids : fetches[q] = 1

\* C15: an identifier without a registry entry is never cloned; when it is
\* in the to-resolve set, the iteration removes it and records it in
\* Unknown; and a requested one is in Unknown when add_packages returns.
C15_UnregisteredToUnknown ==
    [][\A p \in Ids \ registry :
         /\ fetches'[p] = fetches[p]
         /\ (Iteration /\ p \in missing) => (p \notin missing' /\ p \in unknown')
         /\ (AddReturns /\ p \in requested) => p \in unknown']_vars

\* Witness of C15: add_packages has returned after a request for an
\* identifier that has no registry entry and is not checked out.
C15_Witness ==
    /\ Returned
    /\ calls > 0
    /\ \E p \in requested \ package_db : kind[p] = "absent" /\ p \in unknown /\ fetches[p] = 0

\* C16: when add_packages has returned with _circular true, the declarations
\* of the Known packages contain a cycle.
C16_CyclicSound ==
    (Returned /\ calls > 0 /\ circular = "True") => HasKnownCycle

\* Witness of C16: add_packages has returned Cyclic on Known packages one of
\* which declares a dependency that is not Known.
C16_Witness ==
    /\ Returned
    /\ calls > 0
    /\ circular = "True"
    /\ \E p \in Known : ~(Declared(p) \subseteq Known)

====
